---- MODULE Spec2Model ----
(***************************************************************************)
(* Model of any-translate's concurrent translation pipeline:               *)
(*   services/file_service.py        process_srt_file, process_text_file   *)
(*   services/translation_service.py TranslationService                    *)
(*   utils/timeout.py                set_timeout                           *)
(*                                                                         *)
(* A string is modelled as the sequence of its tokens, so the token count  *)
(* of a message is the length of its content.  Lists that Python mutates   *)
(* in place (TranslationService.history) live in a heap of list objects    *)
(* and are reached through references, so aliasing is expressible.         *)
(* asyncio tasks switch only at an await: every action below runs one      *)
(* task from one suspension point (or loop head) to the next.              *)
(***************************************************************************)
EXTENDS Integers, Sequences, FiniteSets, TLC

VARIABLES
    units,            \* the input: subtitles (srt) or sentences (text), in file order
    sessions,         \* the sessions argument
    pipeline,         \* "srt" = process_srt_file, "text" = process_text_file
    model_names,      \* TranslationService.model_names
    max_tokens,       \* TranslationService.max_tokens
    faults,           \* failures the remote endpoint may still produce
    phase,            \* "init", "running", "done", "failed" (gather raised)
    groups,           \* groups[i]: the slice of units given to session i
    group_starts,     \* group_starts[i]: first global index of session i
    histRef,          \* histRef[i]: reference of translation_services[i].history
    heap,             \* heap[r]: the list object behind reference r (0: the template's)
    pc,               \* pc[i]: "loop", "await", "done", "raised"
    local_idx,        \* local_idx[i]: enumerate() counter of session i
    attempt,          \* attempt[i]: tenacity attempt number of the running or last call
    model_idx,        \* model_idx[i]: position in model_names of the call in flight
    inflight,         \* inflight[i]: the remote calls of session i not yet answered
    calls,            \* calls[i]: the answered calls of the last translate_sentence
    behaviour,        \* behaviour[m]: what the endpoint may answer for model m
    session_results,  \* session_results[i]: list of (global_idx, value)
    attempted,        \* the units translate_sentence has been called for
    finished,         \* the sessions in the order in which their tasks returned
    all_results,      \* the merged, sorted list
    output,           \* what is handed to the writer
    wrapped,          \* set_timeout: the wrapper used, time_limit, what func does
    now,              \* set_timeout: time since the wrapper was called
    worker,           \* set_timeout: the thread or inner task running func
    stored,           \* set_timeout: what func has returned or raised
    done_at,          \* set_timeout: when func ended (-1: not yet)
    wpc,              \* set_timeout: position of the wrapper
    alive,            \* set_timeout: what thread.is_alive() returned
    caller            \* set_timeout: what the caller of the wrapper got

\* the state of the translation pipeline
pvars == <<units, sessions, pipeline, model_names, max_tokens, faults, phase,
           groups, group_starts, histRef, heap, pc, local_idx, attempt,
           model_idx, inflight, calls, behaviour, session_results, attempted,
           finished, all_results, output>>

\* the state of a call of a function wrapped by set_timeout
tvars == <<wrapped, now, worker, stored, done_at, wpc, alive, caller>>

vars == <<pvars, tvars>>

(***************************************************************************)
(* Bounds of the model.                                                    *)
(***************************************************************************)
MaxUnits == 3
MaxSessions == 2
MaxFaults == 1
MaxTotal == 12
MaxParts == 5
TightMaxTokens == 8
MaxUnitsOne == 2
TinyMaxTokens == 4
RoomyMaxTokens == 12
MaxLimit == 2
MaxTime == 3

(***************************************************************************)
(* Program constants.                                                      *)
(***************************************************************************)
DefaultMaxTokens == 1024
\* variant: stop_after_attempt(7)
StopLater == 5 + 2
StopAfterAttempt == 5

(***************************************************************************)
(* Input data.  Subtitle k of the file is Cue(k); its index field is the   *)
(* number written in the file, which need not be its position.  Sentence k *)
(* of a text file is the stripped line plus a newline.                     *)
(***************************************************************************)
Cue(k) == [index |-> 10 * k, start |-> 2 * k, end |-> 2 * k + 1,
           text  |-> <<"cue", ToString(k)>>]

Sentence(k) == <<"line", ToString(k), "\n">>

InputUnits(kind, total) ==
    [k \in 1..total |-> IF kind = "srt" THEN Cue(k) ELSE Sentence(k)]

\* the text passed to translate_sentence for a unit
SentenceOf(kind, unit) == IF kind = "srt" THEN unit.text ELSE unit

(***************************************************************************)
(* Session Scheduler: partitioning.                                        *)
(***************************************************************************)
Min(a, b) == IF a < b THEN a ELSE b

\* variant: floor division instead of math.ceil
GroupSizeFloor(total, n) == total \div n

\* math.ceil(total / sessions)
GroupSize(total, n) == (total + n - 1) \div n

\* Python's seq[a:b] for 0 <= a <= b: both ends are clamped to the length
Slice(seq, a, b) == SubSeq(seq, a + 1, Min(b, Len(seq)))

\* variant: the slice runs one unit into the next session's
GroupOverlapping(seq, i, size) == Slice(seq, i * size, (i + 1) * size + 1)

\* groups[i] for the 0-based session number i
Group(seq, i, size) == Slice(seq, i * size, (i + 1) * size)

\* variant: 0-based start
GroupStartZeroBased(i, size) == i * size

\* group_starts[i] for the 0-based session number i
GroupStart(i, size) == i * size + 1

\* global_idx = session_start + local_idx
GlobalIdx(session_start, local) == session_start + local

\* variant: the sessions reuse the template service and so its history list
ServiceHistoryShared(template, fresh) == template

\* TranslationService(...) built for a session: __init__ binds history to a
\* list of its own (fresh); the template's list is reference template
ServiceHistory(template, fresh) == fresh

(***************************************************************************)
(* Merge: all_results.extend(res) per session, then a stable sort by key.  *)
(***************************************************************************)
RECURSIVE Extend(_, _)
Extend(lists, n) ==
    IF n = 0 THEN <<>> ELSE Extend(lists, n - 1) \o lists[n]

\* variant: the sort runs from the largest key to the smallest
SortByKeyDescending(seq) ==
    LET rank(i) == Cardinality({j \in 1..Len(seq) :
                       \/ seq[j].key > seq[i].key
                       \/ seq[j].key = seq[i].key /\ j <= i})
    IN  [p \in 1..Len(seq) |-> seq[CHOOSE i \in 1..Len(seq) : rank(i) = p]]

\* all_results.sort(key=lambda x: x[0]): list.sort is stable, so an entry
\* goes after the entries with a smaller key and after the earlier entries
\* with the same key
SortByKey(seq) ==
    LET rank(i) == Cardinality({j \in 1..Len(seq) :
                       \/ seq[j].key < seq[i].key
                       \/ seq[j].key = seq[i].key /\ j <= i})
    IN  [p \in 1..Len(seq) |-> seq[CHOOSE i \in 1..Len(seq) : rank(i) = p]]

\* translated_subtitles (srt) / the lines written (text)
Emit(kind, results) ==
    [k \in 1..Len(results) |->
        IF kind = "srt" THEN results[k].val ELSE results[k].val \o <<"\n">>]

(***************************************************************************)
(* TranslationService: messages, token counting, history trimming.         *)
(***************************************************************************)
Msg(role, content) == [role |-> role, content |-> content]

SystemPrompt == <<"You are an advanced translation assistant">>

\* translate_query: the f-string around the sentence
TranslateQuery(sentence) ==
    <<"Translate the following sentence">> \o sentence \o <<"MAKE SURE TO FOLLOW THE JSON FORMAT">>

CorrectiveTurn == Msg("user", <<"No, you should follow", "the JSON format">>)
AckTurn == Msg("assistant", <<"Got it. I will follow", "the JSON format">>)

RECURSIVE CountTokens(_)
\* count_tokens: the sum of the encoded lengths of the contents
CountTokens(messages) ==
    IF messages = <<>> THEN 0
    ELSE Len(Head(messages).content) + CountTokens(Tail(messages))

\* variant: the query is put before the history
BuildMessagesQueryFirst(history, sentence) ==
    <<Msg("system", SystemPrompt), Msg("user", TranslateQuery(sentence))>> \o history

\* current_messages
BuildMessages(history, sentence) ==
    <<Msg("system", SystemPrompt)>> \o history \o <<Msg("user", TranslateQuery(sentence))>>

\* variant: an if in place of the while, at most one turn is dropped
TrimHistoryOnce(history, sentence, budget) ==
    IF CountTokens(BuildMessages(history, sentence)) > budget /\ Len(history) > 1
    THEN Tail(history)
    ELSE history

RECURSIVE TrimHistoryNewest(_, _, _)
\* variant: history.pop() in place of history.pop(0)
TrimHistoryNewest(history, sentence, budget) ==
    IF CountTokens(BuildMessages(history, sentence)) > budget /\ Len(history) > 1
    THEN TrimHistoryNewest(SubSeq(history, 1, Len(history) - 1), sentence, budget)
    ELSE history

RECURSIVE TrimHistory(_, _, _)
\* the while loop: history.pop(0) while over budget and more than one turn
TrimHistory(history, sentence, budget) ==
    IF CountTokens(BuildMessages(history, sentence)) > budget /\ Len(history) > 1
    THEN TrimHistory(Tail(history), sentence, budget)
    ELSE history

(***************************************************************************)
(* The remote endpoint and the outcomes of one call.                       *)
(***************************************************************************)
\* response_text parses but fails, or does not parse: raised after the call
ParseErrors == {"JSONDecodeError", "ValidationError"}
\* raised by _attempt_translation itself; the AsyncOpenAI client reports a
\* request that ran into timeout=120 as openai.APITimeoutError, a class that
\* derives from openai.APIError and not from the builtin TimeoutError
CallErrors == {"TimeoutError", "ValueError", "APIError", "APITimeoutError"}
Outcomes == {"ok"} \cup ParseErrors \cup CallErrors

\* further well-formed JSON bodies the endpoint may send
OtherBodies == {"ExtraField", "NoTranslatedText"}

\* the top-level keys of the body json.loads returns; "ok" is a body with
\* exactly the two fields, "ValidationError" a body without source_lang
ResponseFields(o) ==
    CASE o = "ok" -> {"source_lang", "translated_text"}
      [] o = "ValidationError" -> {"translated_text"}
      [] o = "NoTranslatedText" -> {"source_lang"}
      [] o = "ExtraField" -> {"source_lang", "translated_text", "note"}
      [] OTHER -> {}

\* TranslationSchema.model_validate: both fields are required; the model
\* sets no extra="forbid", so pydantic ignores keys it does not know
SchemaAccepts(fields) == {"source_lang", "translated_text"} \subseteq fields

\* what handling the answer o raises inside the model loop ("none": accepted)
RaisedBy(o) ==
    IF o \in CallErrors THEN o
    ELSE IF o = "JSONDecodeError" THEN "JSONDecodeError"
    ELSE IF SchemaAccepts(ResponseFields(o)) THEN "none"
    ELSE "ValidationError"

\* variant: the first except clause names JSONDecodeError only
EscalatesOnlyJson(e) == e = "JSONDecodeError"

\* except (json.JSONDecodeError, ValidationError): history is extended and
\* the error is raised out of the loop
Escalates(e) == e \in ParseErrors

\* variant: the retry condition takes every exception of a remote call
RetryAnyCallError == {"JSONDecodeError", "ValidationError", "ValueError",
                      "TimeoutError", "APIError", "APITimeoutError"}

\* variant: the retry condition also takes the error of an empty model list
RetryAlsoRuntimeError == {"JSONDecodeError", "ValidationError", "ValueError",
                          "TimeoutError", "RuntimeError"}

\* retry_if_exception_type(...)
RetryableErrors == {"JSONDecodeError", "ValidationError", "ValueError", "TimeoutError"}

\* every error translate_sentence can raise derives from Exception
ExceptionKinds == ParseErrors \cup CallErrors \cup {"RuntimeError"}

\* the parsed result of a well-formed response of model m
ResultOf(sentence, m) ==
    [source_lang |-> "EN", translated_text |-> <<"translated by", m>> \o sentence]

\* json.dumps(result)
JsonDumps(result) ==
    <<"{", result.source_lang>> \o result.translated_text \o <<"}">>

\* json.dumps of the accepted body: result is the dict json.loads returned,
\* with every key the body had
AcceptedText(o, result) ==
    IF "note" \in ResponseFields(o)
    THEN JsonDumps(result) \o <<"note">>
    ELSE JsonDumps(result)

\* response_text of a response that does not parse or does not validate
MalformedText(e, sentence) ==
    IF e = "JSONDecodeError" THEN <<"Sure! Here is the translation">>
    ELSE IF e = "NoTranslatedText" THEN <<"{", "EN", "}">>
    ELSE <<"{">> \o sentence \o <<"}">>

\* variant: the acknowledgement turn is not appended
FailureTurnsWithoutAck(o, sentence) ==
    <<Msg("assistant", MalformedText(o, sentence)), CorrectiveTurn>>

\* the turns appended before a parse or validation error is raised
FailureTurns(o, sentence) ==
    <<Msg("assistant", MalformedText(o, sentence)), CorrectiveTurn, AckTurn>>

(***************************************************************************)
(* Session worker: what a unit leaves in session_results.                  *)
(***************************************************************************)
\* variant: the worker catches the retried kinds only
CaughtOnlyRetried(e) == e \in {"JSONDecodeError", "ValidationError", "ValueError", "TimeoutError"}

\* except Exception as e
CaughtByWorker(e) == e \in ExceptionKinds

\* variant: the translated cue takes the end time as its start
TranslatedValueRetimed(kind, unit, result) ==
    IF kind = "srt"
    THEN [index |-> unit.index, start |-> unit.end, end |-> unit.end,
          text  |-> result.translated_text]
    ELSE result.translated_text

\* the value stored on success
TranslatedValue(kind, unit, result) ==
    IF kind = "srt"
    THEN [index |-> unit.index, start |-> unit.start, end |-> unit.end,
          text  |-> result.translated_text]
    ELSE result.translated_text

\* variant: both pipelines store the error message
FallbackErrorText(kind, unit, e) ==
    IF kind = "srt"
    THEN [index |-> unit.index, start |-> unit.start, end |-> unit.end,
          text  |-> <<"Error: ", e>>]
    ELSE <<"Error: ", e>>

\* the value stored in the except branch
FallbackValue(kind, unit, e) ==
    IF kind = "srt" THEN unit ELSE <<"Error: ", e>>

\* (global_idx, value); unit and err record what the entry was made from
Entry(key, val, unit, e) == [key |-> key, val |-> val, unit |-> unit, err |-> e]

(***************************************************************************)
(* Initial states: the caller has built the template TranslationService    *)
(* (history reference 0, possibly already used) and is about to call       *)
(* process_srt_file or process_text_file.                                  *)
(***************************************************************************)
ModelLists == {<<>>, <<"m1">>, <<"m1", "m2">>}

\* nothing has been returned or raised
NoOutcome == [kind |-> "none", value |-> "none", class |-> "none", from |-> "none"]

\* no function wrapped by set_timeout is being called
WrapperIdle ==
    /\ wrapped = [mode |-> "none", limit |-> 0, outcome |-> NoOutcome]
    /\ now = 0
    /\ worker = "unstarted"
    /\ stored = NoOutcome
    /\ done_at = -1
    /\ wpc = "idle"
    /\ alive = "unknown"
    /\ caller = NoOutcome

TemplateHistories == {<<>>, <<Msg("assistant", <<"earlier answer">>)>>}

Models == {"m1", "m2"}

\* the endpoint may answer every call in every way
AnyAnswer == [m \in Models |-> Outcomes]

\* the endpoint answers all calls for a model in the same way
FixedAnswers == [Models -> {{o} : o \in Outcomes \cup OtherBodies}]

InitWith(totals, counts, lists, budgets, templates, nfaults, answers) ==
    /\ pipeline \in {"srt", "text"}
    /\ behaviour \in answers
    /\ calls = <<>>
    /\ \E total \in totals : units = InputUnits(pipeline, total)
    /\ sessions \in counts
    /\ model_names \in lists
    /\ max_tokens \in budgets
    /\ faults = nfaults
    /\ phase = "init"
    /\ groups = <<>>
    /\ group_starts = <<>>
    /\ histRef = <<>>
    /\ \E h \in templates : heap = [r \in {0} |-> h]
    /\ pc = <<>>
    /\ local_idx = <<>>
    /\ attempt = <<>>
    /\ model_idx = <<>>
    /\ inflight = <<>>
    /\ session_results = <<>>
    /\ attempted = {}
    /\ finished = <<>>
    /\ all_results = <<>>
    /\ output = <<>>

Init ==
    /\ InitWith(0..MaxUnits, 1..MaxSessions, ModelLists,
                {TightMaxTokens, DefaultMaxTokens}, TemplateHistories, MaxFaults,
                {AnyAnswer})
    /\ WrapperIdle

\* inputs for the partitioning alone
InitPart ==
    /\ InitWith(0..MaxTotal, 1..MaxParts, {<<"m1">>}, {DefaultMaxTokens}, {<<>>}, 0,
                {AnyAnswer})
    /\ WrapperIdle

\* one session, an endpoint that answers each model always the same way, and
\* faults enough for every call of every unit to fail
InitOne ==
    /\ InitWith(1..MaxUnitsOne, {1}, ModelLists,
                {TinyMaxTokens, TightMaxTokens, RoomyMaxTokens, DefaultMaxTokens},
                {<<>>},
                MaxUnitsOne * StopAfterAttempt * Cardinality(Models), FixedAnswers)
    /\ WrapperIdle

(***************************************************************************)
(* process_*_file up to asyncio.gather: partition, build one service per   *)
(* session, create the session tasks.                                      *)
(***************************************************************************)
Schedule ==
    /\ phase = "init"
    /\ LET group_size == GroupSize(Len(units), sessions)
       IN  /\ groups' = [i \in 1..sessions |-> Group(units, i - 1, group_size)]
           /\ group_starts' = [i \in 1..sessions |-> GroupStart(i - 1, group_size)]
    /\ histRef' = [i \in 1..sessions |-> ServiceHistory(0, i)]
    /\ heap' = [r \in 0..sessions |-> IF r = 0 THEN heap[0] ELSE <<>>]
    /\ pc' = [i \in 1..sessions |-> "loop"]
    /\ local_idx' = [i \in 1..sessions |-> 0]
    /\ attempt' = [i \in 1..sessions |-> 0]
    /\ model_idx' = [i \in 1..sessions |-> 0]
    /\ inflight' = [i \in 1..sessions |-> <<>>]
    /\ calls' = [i \in 1..sessions |-> <<>>]
    /\ session_results' = [i \in 1..sessions |-> <<>>]
    /\ phase' = "running"
    /\ UNCHANGED <<units, sessions, pipeline, model_names, max_tokens, faults,
                   behaviour, attempted, finished, all_results, output>>
    /\ UNCHANGED tvars

(***************************************************************************)
(* Session worker (process_session) and translate_sentence.                *)
(***************************************************************************)
\* variant: the subset is walked from its last unit to its first
CurrentUnitReversed(s) == groups[s][Len(groups[s]) - local_idx[s]]

\* subtitle / sentence of the running iteration of enumerate(subset)
CurrentUnit(s) == groups[s][local_idx[s] + 1]

CurrentSentence(s) == SentenceOf(pipeline, CurrentUnit(s))

\* variant: the candidate list is walked from its end
CallFromLast(s, k, messages) ==
    [unit |-> CurrentUnit(s), model |-> model_names[Len(model_names) + 1 - k],
     messages |-> messages]

\* the call handed to the endpoint: _attempt_translation(current_messages, model)
Call(s, k, messages) ==
    [unit |-> CurrentUnit(s), model |-> model_names[k], messages |-> messages]

\* the loop body ends: the entry is appended and the loop goes on
Record(s, val, e) ==
    /\ session_results' = [session_results EXCEPT ![s] =
           Append(@, Entry(GlobalIdx(group_starts[s], local_idx[s]), val,
                           CurrentUnit(s), e))]
    /\ local_idx' = [local_idx EXCEPT ![s] = @ + 1]
    /\ pc' = [pc EXCEPT ![s] = "loop"]
    /\ phase' = phase

\* variant: the except branch stores nothing
FailWithoutEntry(s, e) ==
    /\ local_idx' = [local_idx EXCEPT ![s] = @ + 1]
    /\ pc' = [pc EXCEPT ![s] = "loop"]
    /\ UNCHANGED <<session_results, phase>>

\* translate_sentence raised e to the worker
Fail(s, e) ==
    IF CaughtByWorker(e)
    THEN Record(s, FallbackValue(pipeline, CurrentUnit(s), e), e)
    ELSE /\ pc' = [pc EXCEPT ![s] = "raised"]
         /\ phase' = "failed"
         /\ UNCHANGED <<session_results, local_idx>>

\* the unit is over: nothing of translate_sentence stays in flight
EndCall(s, pending) ==
    /\ attempt' = attempt
    /\ model_idx' = [model_idx EXCEPT ![s] = 0]
    /\ inflight' = [inflight EXCEPT ![s] = pending]

\* variant: a list that is still over the budget after trimming is not sent
BeginAttemptChecked(s, history, n, pending) ==
    LET trimmed == TrimHistory(history, CurrentSentence(s), max_tokens)
    IN  IF CountTokens(BuildMessages(trimmed, CurrentSentence(s))) > max_tokens
        THEN /\ heap' = [heap EXCEPT ![histRef[s]] = trimmed]
             /\ EndCall(s, pending)
             /\ Fail(s, "ValueError")
        ELSE /\ heap' = [heap EXCEPT ![histRef[s]] = trimmed]
             /\ attempt' = [attempt EXCEPT ![s] = n]
             /\ model_idx' = [model_idx EXCEPT ![s] = 1]
             /\ inflight' = [inflight EXCEPT ![s] =
                    Append(pending, Call(s, 1, BuildMessages(trimmed, CurrentSentence(s))))]
             /\ pc' = [pc EXCEPT ![s] = "await"]
             /\ UNCHANGED <<session_results, local_idx, phase>>

\* one attempt from its first line to the first call: trim, build, call
BeginAttempt(s, history, n, pending) ==
    LET trimmed == TrimHistory(history, CurrentSentence(s), max_tokens)
    IN  /\ heap' = [heap EXCEPT ![histRef[s]] = trimmed]
        /\ attempt' = [attempt EXCEPT ![s] = n]
        /\ model_idx' = [model_idx EXCEPT ![s] = 1]
        /\ inflight' = [inflight EXCEPT ![s] =
               Append(pending, Call(s, 1, BuildMessages(trimmed, CurrentSentence(s))))]
        /\ pc' = [pc EXCEPT ![s] = "await"]
        /\ UNCHANGED <<session_results, local_idx, phase>>

\* variant: the retry stops one attempt later
RaiseOnceMore(s, e, history, pending) ==
    IF e \in RetryableErrors /\ attempt[s] <= StopAfterAttempt
    THEN BeginAttempt(s, history, attempt[s] + 1, pending)
    ELSE /\ heap' = [heap EXCEPT ![histRef[s]] = history]
         /\ EndCall(s, pending)
         /\ Fail(s, e)

\* variant: the next attempt starts from the history as it was before the
\* failed attempt appended to it
RaiseForgetting(s, e, history, pending) ==
    IF e \in RetryableErrors /\ attempt[s] < StopAfterAttempt
    THEN BeginAttempt(s, heap[histRef[s]], attempt[s] + 1, pending)
    ELSE /\ heap' = [heap EXCEPT ![histRef[s]] = history]
         /\ EndCall(s, pending)
         /\ Fail(s, e)

\* translate_sentence raised e out of the model loop: the retry decorator
Raise(s, e, history, pending) ==
    IF e \in RetryableErrors /\ attempt[s] < StopAfterAttempt
    THEN BeginAttempt(s, history, attempt[s] + 1, pending)
    ELSE /\ heap' = [heap EXCEPT ![histRef[s]] = history]
         /\ EndCall(s, pending)
         /\ Fail(s, e)

\* the attempts of a translate_sentence that raises e before any remote
\* call: every attempt is the same, so a retried kind uses up all of them
AttemptsWithoutCall(e) == IF e \in RetryableErrors THEN StopAfterAttempt ELSE 1

\* the for loop takes the next unit and calls translate_sentence
StartUnit(s) ==
    /\ phase = "running"
    /\ pc[s] = "loop"
    /\ local_idx[s] < Len(groups[s])
    /\ IF model_names = <<>>
       THEN /\ heap' = [heap EXCEPT ![histRef[s]] =
                   TrimHistory(@, CurrentSentence(s), max_tokens)]
            /\ attempt' = [attempt EXCEPT ![s] = AttemptsWithoutCall("RuntimeError")]
            /\ model_idx' = [model_idx EXCEPT ![s] = 0]
            /\ inflight' = inflight
            /\ Fail(s, "RuntimeError")
       ELSE BeginAttempt(s, heap[histRef[s]], 1, inflight[s])
    /\ attempted' = attempted \cup {CurrentUnit(s)}
    /\ calls' = [calls EXCEPT ![s] = <<>>]
    /\ UNCHANGED <<units, sessions, pipeline, model_names, max_tokens, faults,
                   behaviour, groups, group_starts, histRef, finished,
                   all_results, output>>
    /\ UNCHANGED tvars

\* the call in flight of session s ends with outcome o
Respond(s, o) ==
    /\ phase = "running"
    /\ pc[s] = "await"
    /\ o \in behaviour[Head(inflight[s]).model]
    /\ o # "ok" => faults > 0
    /\ faults' = IF o = "ok" THEN faults ELSE faults - 1
    /\ LET history == heap[histRef[s]]
           call    == Head(inflight[s])
           pending == Tail(inflight[s])
           result  == ResultOf(CurrentSentence(s), call.model)
           e       == RaisedBy(o)
       IN  /\ calls' = [calls EXCEPT ![s] =
                  Append(@, [attempt |-> attempt[s], model |-> call.model,
                             outcome |-> o])]
           /\ CASE e = "none" ->
                  /\ heap' = [heap EXCEPT ![histRef[s]] =
                         Append(@, Msg("assistant", AcceptedText(o, result)))]
                  /\ EndCall(s, pending)
                  /\ Record(s, TranslatedValue(pipeline, CurrentUnit(s), result), "none")
             [] e # "none" /\ Escalates(e) ->
                  Raise(s, e, history \o FailureTurns(o, CurrentSentence(s)), pending)
             [] OTHER ->
                  IF model_idx[s] < Len(model_names)
                  THEN /\ model_idx' = [model_idx EXCEPT ![s] = @ + 1]
                       /\ inflight' = [inflight EXCEPT ![s] =
                              Append(pending, Call(s, model_idx[s] + 1, call.messages))]
                       /\ UNCHANGED <<heap, attempt, pc, local_idx,
                                      session_results, phase>>
                  ELSE Raise(s, e, history, pending)
    /\ UNCHANGED <<units, sessions, pipeline, model_names, max_tokens,
                   behaviour, groups, group_starts, histRef, attempted,
                   finished, all_results, output>>
    /\ UNCHANGED tvars

\* the for loop is exhausted: return session_results
FinishSession(s) ==
    /\ phase = "running"
    /\ pc[s] = "loop"
    /\ local_idx[s] = Len(groups[s])
    /\ pc' = [pc EXCEPT ![s] = "done"]
    /\ finished' = Append(finished, s)
    /\ UNCHANGED <<units, sessions, pipeline, model_names, max_tokens, faults,
                   phase, groups, group_starts, histRef, heap, local_idx,
                   attempt, model_idx, inflight, calls, behaviour,
                   session_results, attempted, all_results, output>>
    /\ UNCHANGED tvars

(***************************************************************************)
(* gather has returned: extend, sort, emit.                                *)
(***************************************************************************)
Merge ==
    /\ phase = "running"
    /\ \A s \in 1..sessions : pc[s] = "done"
    /\ all_results' = SortByKey(Extend(session_results, sessions))
    /\ output' = Emit(pipeline, all_results')
    /\ phase' = "done"
    /\ UNCHANGED <<units, sessions, pipeline, model_names, max_tokens, faults,
                   groups, group_starts, histRef, heap, pc, local_idx,
                   attempt, model_idx, inflight, calls, behaviour,
                   session_results, attempted, finished>>
    /\ UNCHANGED tvars

Next ==
    \/ Schedule
    \/ \E s \in 1..sessions : StartUnit(s)
    \/ \E s \in 1..sessions : \E o \in Outcomes \cup OtherBodies : Respond(s, o)
    \/ \E s \in 1..sessions : FinishSession(s)
    \/ Merge

Spec == Init /\ [][Next]_vars

NextPart == Schedule

SpecPart == InitPart /\ [][NextPart]_vars

\* translate_sentence in a single session
SpecOne == InitOne /\ [][Next]_vars

\* several sessions, an endpoint that answers each model always the same way
\* (a model that is not in the list is never called: its answer is fixed)
\* and faults enough for every call of every unit to fail
InitLive ==
    /\ \E lists \in {{<<>>}, {<<"m1">>}, {<<"m1", "m2">>}} :
           InitWith(1..MaxUnitsOne, 1..MaxSessions, lists, {TightMaxTokens}, {<<>>},
                    MaxUnitsOne * StopAfterAttempt * Cardinality(Models),
                    {a \in FixedAnswers :
                         \A m \in Models :
                             (\A l \in lists : \A i \in 1..Len(l) : l[i] # m)
                                 => a[m] = {"ok"}})
    /\ WrapperIdle

\* the event loop runs a task that is ready, the gather returns when all
\* tasks have, and every remote call is answered
SpecLive == InitLive /\ [][Next]_vars /\ WF_vars(Next)

(***************************************************************************)
(* utils/timeout.py: a call of func wrapped by set_timeout(time_limit).    *)
(* Time is counted in ticks from the call of the wrapper.                  *)
(***************************************************************************)
\* func returned v
Returned(v) == [kind |-> "returned", value |-> v, class |-> "none", from |-> "func"]

\* an exception of class c created by f
RaisedError(c, f) == [kind |-> "raised", value |-> "none", class |-> c, from |-> f]

\* what func does when it is left to run: return a value, return None, or
\* raise an Exception
FuncOutcomes ==
    {Returned("result"), Returned("None")} \cup
    {RaisedError(c, "func") : c \in {"TimeoutError", "ValueError", "KeyError"}}

\* thread.daemon = True: the setter of threading.Thread.daemon raises
\* RuntimeError("cannot set daemon status of active thread") for a thread
\* that has been started
SetDaemon(started) ==
    IF started THEN RaisedError("RuntimeError", "threading") ELSE NoOutcome

\* wrapper_sync, the thread is alive: thread.daemon = True, then raise
\* TimeoutError
WhenAlive ==
    IF SetDaemon(TRUE).kind = "raised"
    THEN SetDaemon(TRUE)
    ELSE RaisedError("TimeoutError", "wrapper")

\* wrapper_sync, the thread has ended: raise exception[0] or return result[0]
WhenJoined(cell) ==
    IF cell.kind = "raised" THEN cell ELSE Returned(cell.value)

\* wrapper_async: except TimeoutError
CaughtByWrapper(c) == c = "TimeoutError"

\* wrapper_async, wait_for returned or raised what func did
WhenAwaited(cell) ==
    IF cell.kind = "raised" /\ CaughtByWrapper(cell.class)
    THEN RaisedError("TimeoutError", "wrapper")
    ELSE cell

\* what asyncio.wait_for raises at the deadline: asyncio.TimeoutError, which
\* is the builtin TimeoutError from Python 3.11 on and a class of its own
\* before
WaitForExpiry ==
    {RaisedError("TimeoutError", "wait_for"),
     RaisedError("asyncio.TimeoutError", "wait_for")}

\* wrapper_async, wait_for raised e at the deadline
WhenExpired(e) ==
    IF CaughtByWrapper(e.class) THEN RaisedError("TimeoutError", "wrapper") ELSE e

\* a wrapped function is called; no file is being processed
InitTimeout ==
    /\ InitWith({0}, {1}, {<<>>}, {DefaultMaxTokens}, {<<>>}, 0, {AnyAnswer})
    /\ pipeline = "srt"
    /\ wrapped \in [mode : {"sync", "async"}, limit : 1..MaxLimit,
                     outcome : FuncOutcomes]
    /\ now = 0
    /\ worker = "unstarted"
    /\ stored = NoOutcome
    /\ done_at = -1
    /\ wpc = "call"
    /\ alive = "unknown"
    /\ caller = NoOutcome

\* thread.start() and thread.join(time_limit), or await asyncio.wait_for(...)
StartWrapper ==
    /\ wpc = "call"
    /\ worker' = "running"
    /\ wpc' = IF wrapped.mode = "sync" THEN "join" ELSE "wait"
    /\ UNCHANGED <<wrapped, now, stored, done_at, alive, caller>>
    /\ UNCHANGED pvars

\* time passes while the wrapper waits or func still runs
Tick ==
    /\ wpc \in {"join", "alive", "wait"} \/ (wpc = "done" /\ worker = "running")
    /\ now < MaxTime
    /\ now' = now + 1
    /\ UNCHANGED <<wrapped, worker, stored, done_at, wpc, alive, caller>>
    /\ UNCHANGED pvars

\* func returns or raises in its thread or task; a thread that the wrapper
\* has given up waiting for runs on and ends like any other
FuncEnds ==
    /\ worker = "running"
    /\ worker' = "finished"
    /\ stored' = wrapped.outcome
    /\ done_at' = now
    /\ UNCHANGED <<wrapped, now, wpc, alive, caller>>
    /\ UNCHANGED pvars

\* thread.join(time_limit) returns: the thread has ended or the time is up
JoinReturns ==
    /\ wpc = "join"
    /\ worker = "finished" \/ now >= wrapped.limit
    /\ wpc' = "alive"
    /\ UNCHANGED <<wrapped, now, worker, stored, done_at, alive, caller>>
    /\ UNCHANGED pvars

\* if thread.is_alive(): ... and the rest of wrapper_sync
CheckAlive ==
    /\ wpc = "alive"
    /\ alive' = IF worker = "running" THEN "yes" ELSE "no"
    /\ caller' = IF worker = "running" THEN WhenAlive ELSE WhenJoined(stored)
    /\ wpc' = "done"
    /\ UNCHANGED <<wrapped, now, worker, stored, done_at>>
    /\ UNCHANGED pvars

\* await asyncio.wait_for(...) ends: func has ended, or the time is up and
\* the inner task is cancelled
WaitReturns ==
    /\ wpc = "wait"
    /\ worker = "finished" \/ now >= wrapped.limit
    /\ IF worker = "finished"
       THEN /\ caller' = WhenAwaited(stored)
            /\ worker' = worker
       ELSE /\ \E e \in WaitForExpiry : caller' = WhenExpired(e)
            /\ worker' = "cancelled"
    /\ wpc' = "done"
    /\ UNCHANGED <<wrapped, now, stored, done_at, alive>>
    /\ UNCHANGED pvars

NextTimeout ==
    \/ StartWrapper
    \/ Tick
    \/ FuncEnds
    \/ JoinReturns
    \/ CheckAlive
    \/ WaitReturns

SpecTimeout == InitTimeout /\ [][NextTimeout]_vars

(***************************************************************************)
(* Properties of the partitioning (checked under SpecPart and Spec).       *)
(***************************************************************************)
Total == Len(units)

Sizes == [i \in 1..sessions |-> Len(groups[i])]

\* ceil(Total / sessions), stated without the division of the code
Ceiling == CHOOSE c \in 0..Total : c * sessions >= Total /\ (c = 0 \/ (c - 1) * sessions < Total)

RECURSIVE SumTo(_, _)
SumTo(f, n) == IF n = 0 THEN 0 ELSE SumTo(f, n - 1) + f[n]

NonEmpty == {i \in 1..sessions : Sizes[i] > 0}

MaxOf(S) == CHOOSE x \in S : \A y \in S : y <= x

MinOf(S) == CHOOSE x \in S : \A y \in S : x <= y

\* C3: the partitions are contiguous slices [i*size, (i+1)*size) of the
\* input, pairwise disjoint, and their concatenation in partition order is
\* the input exactly once; only trailing partitions are empty.
C3_PartitionsTileInput ==
    phase # "init" =>
        /\ Len(groups) = sessions
        /\ Extend(groups, sessions) = units
        /\ \A i \in 1..sessions :
               LET before == SumTo(Sizes, i - 1)
               IN  /\ before = Min((i - 1) * Ceiling, Total)
                   /\ groups[i] = SubSeq(units, before + 1, before + Sizes[i])
        /\ \A i, j \in 1..sessions : i < j /\ Sizes[i] = 0 => Sizes[j] = 0

C3_Witness ==
    /\ phase # "init"
    /\ Total = 5 /\ sessions = 4
    /\ Sizes = <<2, 2, 1, 0>>

\* C4 as stated: for 1 <= sessions <= Total the largest partition and the
\* smallest non-empty partition differ by at most one unit.
C4_SizesDifferByAtMostOne ==
    phase # "init" /\ Total >= 1 /\ sessions <= Total =>
        MaxOf({Sizes[i] : i \in 1..sessions}) - MinOf({Sizes[i] : i \in NonEmpty}) <= 1

\* C4 amended: for 1 <= sessions <= Total every non-empty partition except
\* the last non-empty one holds exactly ceil(Total/sessions) units and the
\* last non-empty one holds between 1 and ceil(Total/sessions), so the
\* largest and the smallest non-empty partition differ by at most
\* ceil(Total/sessions) - 1.
C4_SizesDifferByLessThanGroupSize ==
    phase # "init" /\ Total >= 1 /\ sessions <= Total =>
        LET last == MaxOf(NonEmpty)
        IN  /\ \A i \in NonEmpty : i # last => Sizes[i] = Ceiling
            /\ Sizes[last] >= 1 /\ Sizes[last] <= Ceiling
            /\ MaxOf({Sizes[i] : i \in 1..sessions}) - MinOf({Sizes[i] : i \in NonEmpty})
                   <= Ceiling - 1

C4_Witness ==
    /\ phase # "init"
    /\ Total = 7 /\ sessions = 3
    /\ Sizes = <<3, 3, 1>>

\* C5: partition i (0-based) records the start index i*size + 1, and the
\* key session_start + local_idx of the unit at local position j is that
\* unit's 1-based position in the input; 10 units in 3 sessions give the
\* sizes 4, 4, 2 and the starts 1, 5, 9.
C5_StartsAndKeysAreGlobalPositions ==
    phase # "init" =>
        /\ \A i \in 1..sessions :
               /\ group_starts[i] = (i - 1) * Ceiling + 1
               /\ \A j \in 0..(Sizes[i] - 1) :
                      LET key == GlobalIdx(group_starts[i], j)
                      IN  key \in 1..Total /\ units[key] = groups[i][j + 1]
        /\ (Total = 10 /\ sessions = 3 =>
               Sizes = <<4, 4, 2>> /\ group_starts = <<1, 5, 9>>)

C5_Witness ==
    /\ phase # "init"
    /\ Total = 10 /\ sessions = 3
    /\ Sizes = <<4, 4, 2>>
    /\ GlobalIdx(group_starts[3], 1) = 10

(***************************************************************************)
(* Properties of the pipeline (checked under Spec and FairSpec).           *)
(***************************************************************************)
Sessions == 1..sessions

\* the entries the workers have stored, merged or not
StoredEntries ==
    IF phase = "init" THEN {}
    ELSE UNION {{session_results[s][j] : j \in 1..Len(session_results[s])} : s \in Sessions}

\* translate_sentence ended in an error for input unit k
Errored(k) == \E e \in StoredEntries : e.unit = units[k] /\ e.err # "none"

Translated(k) == \E e \in StoredEntries : e.unit = units[k] /\ e.err = "none"

\* C1: whatever the session count and the order in which the sessions
\* complete, the merged sequence is in ascending global index and position k
\* of the output holds the result of the unit at input position k.
C1_OutputInInputOrder ==
    phase = "done" =>
        /\ \A k \in 1..Len(all_results) :
               k <= Total /\ all_results[k].unit = units[k]
        /\ \A k \in 1..(Len(all_results) - 1) :
               all_results[k].key < all_results[k + 1].key
        /\ Len(output) = Len(all_results)
        /\ pipeline = "srt" =>
               \A k \in 1..Len(output) : output[k].index = units[k].index

C1_Witness ==
    /\ phase = "done"
    /\ sessions = 2 /\ Total = 3
    /\ finished = <<2, 1>>
    /\ Len(output) = 3

\* C2: for every number of units (0 included) and every session count (also
\* larger than the number of units), and whatever calls fail, the merged
\* result has one entry per input unit: its length is the input's and its
\* set of global indices is exactly 1..Total.
C2_OneEntryPerUnit ==
    phase = "done" =>
        /\ Len(all_results) = Total
        /\ Len(output) = Total
        /\ {all_results[k].key : k \in 1..Len(all_results)} = 1..Total

C2_Witness ==
    /\ phase = "done"
    /\ Total = 3
    /\ \E k \in 1..Total : Errored(k)
    /\ \E k \in 1..Total : Translated(k)
    /\ Len(all_results) = 3

\* C6: in the subtitle pipeline a cue whose translate_sentence call ended in
\* an error is emitted at its own position as the original cue.
C6_SrtFallbackIsOriginalCue ==
    phase = "done" /\ pipeline = "srt" =>
        \A k \in 1..Total :
            Errored(k) => k <= Len(output) /\ output[k] = units[k]

C6_Witness ==
    /\ phase = "done" /\ pipeline = "srt"
    /\ Total = 3
    /\ Errored(2) /\ output[2] = Cue(2)
    /\ Translated(1) /\ Translated(3)

\* C7 as stated: in the text pipeline a sentence whose translate_sentence
\* call ended in an error is emitted at its own position with its original
\* text unchanged.
C7_TextFallbackIsOriginalSentence ==
    phase = "done" /\ pipeline = "text" =>
        \A k \in 1..Total :
            Errored(k) =>
                /\ k <= Len(all_results)
                /\ all_results[k].val = units[k]
                /\ output[k] \in {units[k], units[k] \o <<"\n">>}

\* the next step of session s: the loop goes on, or the call in flight returns
SessionStep(s) ==
    IF pc[s] = "await" THEN Respond(s, "ok") ELSE StartUnit(s) \/ FinishSession(s)

\* C8: a unit that fails for good aborts nothing: no error leaves a worker
\* and the gather never raises; after a failure every session that has not
\* returned can still take its next step (the next unit of the same session
\* and the units of the other sessions are still processed), the merge runs
\* once all have returned, and by then translate_sentence has been called
\* for every unit.
C8_FailedUnitAbortsNothing ==
    /\ phase # "failed"
    /\ phase # "init" => \A s \in Sessions : pc[s] \in {"loop", "await", "done"}
    /\ phase = "running" /\ (\E k \in 1..Total : Errored(k)) =>
           /\ \A s \in Sessions : pc[s] # "done" => ENABLED SessionStep(s)
           /\ (\A s \in Sessions : pc[s] = "done") => ENABLED Merge
    /\ phase = "done" => attempted = {units[k] : k \in 1..Total}

C8_Witness ==
    /\ phase = "done"
    /\ sessions = 2 /\ Total = 3
    /\ session_results[1][1].err # "none"
    /\ session_results[1][2].err = "none"
    /\ session_results[2][1].err = "none"
    /\ attempted = {units[1], units[2], units[3]}

\* C9: a session handles its units in partition order, one at a time: at
\* most one call is in flight, it is for the first unit without a stored
\* outcome, and the stored outcomes are those of the units before it.
C9_SessionIsSequential ==
    phase \in {"running", "done"} =>
        \A s \in Sessions :
            /\ Len(inflight[s]) <= 1
            /\ \A j \in 1..Len(session_results[s]) :
                   j <= Len(groups[s]) /\ session_results[s][j].unit = groups[s][j]
            /\ inflight[s] # <<>> =>
                   /\ Len(session_results[s]) < Len(groups[s])
                   /\ inflight[s][1].unit = groups[s][Len(session_results[s]) + 1]

C9_Witness ==
    /\ phase = "running"
    /\ sessions = 2 /\ Total = 3
    /\ Len(inflight[1]) = 1 /\ inflight[1][1].unit = units[2]
    /\ Len(session_results[1]) = 1
    /\ Len(inflight[2]) = 1 /\ session_results[2] = <<>>

\* session s took the step
Acting(s) ==
    <<pc[s], local_idx[s], attempt[s], model_idx[s], inflight[s]>>' #
    <<pc[s], local_idx[s], attempt[s], model_idx[s], inflight[s]>>

\* C10: each session has a history list of its own, empty at the start and
\* distinct from the template's; a step of session s (append or trim)
\* changes no list but the one of s, and the template's list never changes.
C10_SessionsOwnTheirHistory ==
    [][ /\ phase = "init" /\ phase' = "running" =>
              /\ \A s \in 1..sessions' : histRef'[s] # 0 /\ heap'[histRef'[s]] = <<>>
              /\ \A s, t \in 1..sessions' : s # t => histRef'[s] # histRef'[t]
              /\ heap'[0] = heap[0]
        /\ phase = "running" =>
              /\ histRef' = histRef
              /\ heap'[0] = heap[0]
              /\ \A s \in Sessions :
                     Acting(s) =>
                         \A r \in DOMAIN heap : r # histRef[s] => heap'[r] = heap[r]
              /\ (\A s \in Sessions : ~Acting(s)) => heap' = heap
      ]_vars

C10_Witness ==
    /\ phase = "running"
    /\ sessions = 2
    /\ heap[0] # <<>>
    /\ attempt[1] = 2 /\ Len(heap[histRef[1]]) < 3
    /\ heap[histRef[2]] # <<>>
    /\ heap[histRef[2]] # heap[histRef[1]]
    /\ heap[histRef[2]] # heap[0]

(***************************************************************************)
(* translate_sentence: history, model fallback and retry                   *)
(***************************************************************************)

\* session s got the answer to a remote call in this step
Answered(s) == phase = "running" /\ pc[s] = "await" /\ Len(calls'[s]) = Len(calls[s]) + 1

\* the call answered in this step, with its outcome
AnsweredCall(s) == calls'[s][Len(calls'[s])]

\* the exception the answered call ended in
AnsweredError(s) == RaisedBy(AnsweredCall(s).outcome)

\* the last entry session s has stored
LastEntry(s) == session_results[s][Len(session_results[s])]

\* translate_sentence has returned or raised for the unit the log is about
UnitSettled(s) ==
    /\ phase \in {"running", "done"}
    /\ pc[s] \in {"loop", "done"}
    /\ session_results[s] # <<>>

\* C11: when a response is accepted, the request that was sent (the user
\* turn with the translate query) and the accepted response (the assistant
\* turn) are both appended, in that order, to the history of the session.
C11_RequestAndResponseAppended ==
    [][\A s \in Sessions :
          Answered(s) /\ AnsweredError(s) = "none" =>
              heap'[histRef[s]] = heap[histRef[s]] \o
                  <<Msg("user", TranslateQuery(CurrentSentence(s))),
                    Msg("assistant",
                        AcceptedText(AnsweredCall(s).outcome,
                                     ResultOf(CurrentSentence(s), AnsweredCall(s).model)))>>
      ]_vars

\* session s is waiting for the answer to a call of the current attempt
Attempting(s) == phase = "running" /\ pc[s] = "await"

\* the token cost of the message list the current attempt sends
AttemptCost(s) == CountTokens(Head(inflight[s]).messages)

\* C12 as stated: after the trimming of an attempt the cost of system
\* prompt, history and query is within max_tokens unless the history holds
\* exactly one turn.
C12_WithinBudgetUnlessOneTurn ==
    \A s \in Sessions :
        Attempting(s) =>
            AttemptCost(s) <= max_tokens \/ Len(heap[histRef[s]]) = 1

\* C12, amended: after the trimming of an attempt the cost of system prompt,
\* history and query is within max_tokens unless the history holds at most
\* one turn (one turn, or none when the query alone is over the budget).
C12_WithinBudgetUnlessAtMostOneTurn ==
    \A s \in Sessions :
        Attempting(s) =>
            AttemptCost(s) <= max_tokens \/ Len(heap[histRef[s]]) <= 1

\* a second attempt whose history was cut down to one turn, still over budget
C12_Witness ==
    /\ Attempting(1)
    /\ attempt[1] = 2
    /\ Len(heap[histRef[1]]) = 1
    /\ AttemptCost(1) > max_tokens

\* the calls of the last translate_sentence of session s in the order they
\* were issued, the one still in flight included
Issued(s) ==
    calls[s] \o
    (IF pc[s] = "await"
     THEN <<[attempt |-> attempt[s], model |-> Head(inflight[s]).model,
             outcome |-> "in flight"]>>
     ELSE <<>>)

\* the rank of model m in the candidate list
Rank(m) == CHOOSE k \in 1..Len(model_names) : model_names[k] = m

\* the endpoint of the scenario: m1 always times out, m2 always succeeds
FirstTimesOut ==
    /\ model_names = <<"m1", "m2">>
    /\ behaviour["m1"] = {"TimeoutError"}
    /\ behaviour["m2"] = {"ok"}

\* C13: in every attempt the models are called in list order from the first
\* one; the next model is called only after the call to the one before it
\* failed with an error that is no schema violation; no call follows an
\* accepted response.  When m1 always times out and m2 always succeeds,
\* every stored outcome is the translation by m2 and m1 was called before m2.
C13_ModelsInRankOrder ==
    phase \in {"running", "done"} =>
        \A s \in Sessions :
            /\ \A i \in 1..Len(Issued(s)) :
                   LET c == Issued(s)[i]
                   IN  IF i = 1 \/ Issued(s)[i - 1].attempt # c.attempt
                       THEN c.model = model_names[1]
                       ELSE LET b == Issued(s)[i - 1]
                            IN  /\ RaisedBy(b.outcome) \in CallErrors
                                /\ Rank(b.model) < Len(model_names)
                                /\ c.model = model_names[Rank(b.model) + 1]
            /\ \A i \in 1..Len(calls[s]) :
                   RaisedBy(calls[s][i].outcome) = "none" => i = Len(Issued(s))
            /\ FirstTimesOut =>
                   /\ \A j \in 1..Len(session_results[s]) :
                          LET e == session_results[s][j]
                          IN  /\ e.err = "none"
                              /\ e.val = TranslatedValue(pipeline, e.unit,
                                     ResultOf(SentenceOf(pipeline, e.unit), "m2"))
                   /\ UnitSettled(s) =>
                          /\ Len(calls[s]) = 2
                          /\ calls[s][1].model = "m1"
                          /\ calls[s][2].model = "m2"

\* both units of a session were translated by m2 after m1 had timed out
C13_Witness ==
    /\ phase = "done"
    /\ FirstTimesOut
    /\ Len(all_results) = 2
    /\ \A k \in 1..2 : all_results[k].err = "none"
    /\ calls[1] = <<[attempt |-> 1, model |-> "m1", outcome |-> "TimeoutError"],
                    [attempt |-> 1, model |-> "m2", outcome |-> "ok"]>>

\* C14: a parse or validation failure of a model ends the attempt at once:
\* no model after it is called in that attempt, and the error goes to the
\* retry layer, which starts the next attempt from the first model or, after
\* the last attempt, raises that very error to the worker.
C14_SchemaFailureEndsAttempt ==
    phase \in {"running", "done"} =>
        \A s \in Sessions : \A i \in 1..Len(calls[s]) :
            LET c == calls[s][i]
            IN  RaisedBy(c.outcome) \in ParseErrors =>
                    IF i < Len(Issued(s))
                    THEN /\ Issued(s)[i + 1].attempt = c.attempt + 1
                         /\ Issued(s)[i + 1].model = model_names[1]
                    ELSE /\ c.attempt = StopAfterAttempt
                         /\ UnitSettled(s)
                         /\ LastEntry(s).err = RaisedBy(c.outcome)

\* the first model fails validation in every attempt: the second model, which
\* would have succeeded, is never called
C14_Witness ==
    /\ UnitSettled(1)
    /\ model_names = <<"m1", "m2">>
    /\ behaviour["m2"] = {"ok"}
    /\ Len(calls[1]) = StopAfterAttempt
    /\ \A i \in 1..Len(calls[1]) :
           /\ calls[1][i].model = "m1"
           /\ calls[1][i].attempt = i
           /\ calls[1][i].outcome = "ValidationError"
    /\ LastEntry(1).err = "ValidationError"

\* the history of session s followed by the three turns a parse or validation
\* failure of the answered call adds
WithCorrection(s) ==
    heap[histRef[s]] \o
        <<Msg("assistant", MalformedText(AnsweredCall(s).outcome, CurrentSentence(s))),
          CorrectiveTurn, AckTurn>>

\* C15: on a parse or validation failure exactly three turns are appended to
\* the history before the error is raised: the malformed response as an
\* assistant turn, the corrective user turn, the acknowledgement as an
\* assistant turn.  The next attempt trims that extended history and builds
\* its message list from it; after the last attempt the extended history is
\* what the session keeps.
C15_ThreeCorrectiveTurns ==
    [][\A s \in Sessions :
          Answered(s) /\ AnsweredError(s) \in ParseErrors =>
              IF attempt[s] < StopAfterAttempt
              THEN /\ attempt'[s] = attempt[s] + 1
                   /\ heap'[histRef[s]] =
                          TrimHistory(WithCorrection(s), CurrentSentence(s), max_tokens)
                   /\ Head(inflight'[s]).messages =
                          BuildMessages(heap'[histRef[s]], CurrentSentence(s))
                   /\ max_tokens = DefaultMaxTokens =>
                          heap'[histRef[s]] = WithCorrection(s)
              ELSE heap'[histRef[s]] = WithCorrection(s)
      ]_vars

\* the second attempt of a first unit is sent with the three turns between
\* system prompt and query
C15_Witness ==
    /\ Attempting(1)
    /\ attempt[1] = 2
    /\ calls[1] = <<[attempt |-> 1, model |-> "m1", outcome |-> "JSONDecodeError"]>>
    /\ Head(inflight[1]).messages =
           <<Msg("system", SystemPrompt),
             Msg("assistant", MalformedText("JSONDecodeError", CurrentSentence(1))),
             CorrectiveTurn, AckTurn,
             Msg("user", TranslateQuery(CurrentSentence(1)))>>

\* the attempts of the last translate_sentence of session s
AttemptsMade(s) == {Issued(s)[i].attempt : i \in 1..Len(Issued(s))}

\* C16: a translate_sentence call makes at most 5 attempts, numbered from 1
\* without a gap.  When every attempt ended in a parse or validation error
\* there were exactly 5 attempts, and the error of the fifth is the error
\* the worker caught.
C16_AtMostFiveAttempts ==
    phase \in {"running", "done"} =>
        \A s \in Sessions :
            /\ attempt[s] <= StopAfterAttempt
            /\ \E n \in 0..StopAfterAttempt : AttemptsMade(s) = 1..n
            /\ ( /\ UnitSettled(s)
                 /\ calls[s] # <<>>
                 /\ \A i \in 1..Len(calls[s]) :
                        RaisedBy(calls[s][i].outcome) \in ParseErrors )
               => /\ AttemptsMade(s) = 1..StopAfterAttempt
                  /\ Len(calls[s]) = StopAfterAttempt
                  /\ LastEntry(s).err = RaisedBy(calls[s][Len(calls[s])].outcome)

\* the only model answers with text that is no JSON in all five attempts
C16_Witness ==
    /\ UnitSettled(1)
    /\ model_names = <<"m1">>
    /\ Len(calls[1]) = 5
    /\ \A i \in 1..Len(calls[1]) :
           calls[1][i].attempt = i /\ calls[1][i].outcome = "JSONDecodeError"
    /\ LastEntry(1).err = "JSONDecodeError"
    /\ local_idx[1] < Len(groups[1])

\* the errors of a remote call that are neither a value error nor a timeout
TransientErrors == {"APIError"}

\* C17: an error of a remote call that is none of JSONDecodeError,
\* ValidationError, ValueError and TimeoutError is not retried: when it is
\* the error of the last model, no call follows it.  When every model fails
\* that way, each model was called exactly once, in one attempt, and the
\* worker caught the last error and stored the fallback for the unit (in the
\* subtitle pipeline the original cue).
C17_TransientFailureNotRetried ==
    phase \in {"running", "done"} =>
        \A s \in Sessions :
            /\ \A i \in 1..Len(calls[s]) :
                   ( /\ RaisedBy(calls[s][i].outcome) \in TransientErrors
                     /\ calls[s][i].model = model_names[Len(model_names)] )
                   => /\ i = Len(Issued(s))
                      /\ UnitSettled(s)
                      /\ LastEntry(s).err = RaisedBy(calls[s][i].outcome)
                      /\ pipeline = "srt" => LastEntry(s).val = LastEntry(s).unit
            /\ ( /\ UnitSettled(s)
                 /\ calls[s] # <<>>
                 /\ \A i \in 1..Len(calls[s]) :
                        RaisedBy(calls[s][i].outcome) \in TransientErrors )
               => /\ Len(calls[s]) = Len(model_names)
                  /\ \A i \in 1..Len(calls[s]) :
                         calls[s][i].attempt = 1 /\ calls[s][i].model = model_names[i]

\* both models fail with an API error: two calls, one attempt, the cue kept
C17_Witness ==
    /\ UnitSettled(1)
    /\ pipeline = "srt"
    /\ calls[1] = <<[attempt |-> 1, model |-> "m1", outcome |-> "APIError"],
                    [attempt |-> 1, model |-> "m2", outcome |-> "APIError"]>>
    /\ LastEntry(1).err = "APIError"
    /\ LastEntry(1).val = LastEntry(1).unit

\* the errors a remote call that ran out of time ends in
Timeouts == {"TimeoutError", "APITimeoutError"}

\* C18: a timeout of a remote call goes to the retry layer: a unit whose
\* remote calls all time out is attempted 5 times, each attempt calling every
\* candidate model in rank order, and then the timeout error is what the
\* worker catches.
C18_TimeoutRetriedFiveTimes ==
    phase \in {"running", "done"} =>
        \A s \in Sessions :
            ( /\ UnitSettled(s)
              /\ calls[s] # <<>>
              /\ \A i \in 1..Len(calls[s]) : RaisedBy(calls[s][i].outcome) \in Timeouts )
            => /\ Len(calls[s]) = StopAfterAttempt * Len(model_names)
               /\ \A i \in 1..Len(calls[s]) :
                      /\ calls[s][i].attempt = ((i - 1) \div Len(model_names)) + 1
                      /\ calls[s][i].model = model_names[((i - 1) % Len(model_names)) + 1]
               /\ LastEntry(s).err \in Timeouts

\* C19: with an empty candidate list translate_sentence issues no remote
\* call and raises the configuration error after one attempt; the worker
\* catches it and stores the same fallback as for any other error (in the
\* subtitle pipeline the original cue), and the session goes on: when it
\* returns it has stored an entry for each of its units.
C19_NoModelsNoCall ==
    (phase \in {"running", "done"} /\ model_names = <<>>) =>
        \A s \in Sessions :
            /\ inflight[s] = <<>> /\ calls[s] = <<>>
            /\ pc[s] \in {"loop", "done"}
            /\ attempt[s] <= 1
            /\ Len(session_results[s]) = local_idx[s]
            /\ pc[s] = "done" => local_idx[s] = Len(groups[s])
            /\ \A j \in 1..Len(session_results[s]) :
                   LET e == session_results[s][j]
                   IN  /\ e.err = "RuntimeError"
                       /\ e.unit = groups[s][j]
                       /\ e.val = FallbackValue(pipeline, e.unit, e.err)
                       /\ pipeline = "srt" => e.val = e.unit

\* a session without models has stored the fallback for both of its units
C19_Witness ==
    /\ phase = "done"
    /\ model_names = <<>>
    /\ pipeline = "srt"
    /\ Len(all_results) = 2
    /\ \A k \in 1..2 : all_results[k].err = "RuntimeError" /\ all_results[k].val = units[k]
    /\ attempt[1] = 1
    /\ calls[1] = <<>>

\* the top-level fields of the response the last call of session s received
LastResponseFields(s) == ResponseFields(calls[s][Len(calls[s])].outcome)

\* C20: a response is accepted (returned as the outcome of the unit and
\* appended to the history) only if it has source_lang, has translated_text
\* and has no other top-level field.
C20_OnlyExactSchemaAccepted ==
    phase \in {"running", "done"} =>
        \A s \in Sessions :
            (UnitSettled(s) /\ calls[s] # <<>> /\ LastEntry(s).err = "none") =>
                LastResponseFields(s) = {"source_lang", "translated_text"}

(***************************************************************************)
(* Frame conditions, trimming, message lists and termination.              *)
(***************************************************************************)

\* C22: the subtitle pipeline never changes a cue's metadata: the output cue
\* at position k has the index, start and end of the input cue at position
\* k, whether the cue was translated or fell back; only the text may differ.
C22_CueMetadataKept ==
    phase = "done" /\ pipeline = "srt" =>
        /\ Len(output) = Total
        /\ \A k \in 1..Total :
               /\ output[k].index = units[k].index
               /\ output[k].start = units[k].start
               /\ output[k].end = units[k].end
               /\ Errored(k) => output[k].text = units[k].text

\* a translated cue with a new text next to a cue that fell back
C22_Witness ==
    /\ phase = "done" /\ pipeline = "srt"
    /\ Total = 2
    /\ Translated(1) /\ output[1].text # units[1].text
    /\ output[1].index = Cue(1).index /\ output[1].start = Cue(1).start
    /\ Errored(2) /\ output[2].end = Cue(2).end

\* session s enters the trimming loop in this step: a unit starts or the
\* retry layer calls translate_sentence again
Trims(s) ==
    /\ phase = "running"
    /\ \/ pc[s] = "loop" /\ (pc'[s] = "await" \/ local_idx'[s] # local_idx[s])
       \/ pc[s] = "await" /\ pc'[s] = "await" /\ attempt'[s] # attempt[s]

\* the history the trimming loop of this step starts from
BeforeTrim(s) ==
    IF pc[s] = "await" /\ AnsweredError(s) \in ParseErrors
    THEN WithCorrection(s)
    ELSE heap[histRef[s]]

\* the history without its d oldest turns
DropOldest(history, d) == SubSeq(history, d + 1, Len(history))

\* the cost of the message list built from a history for the unit of s
CostWith(s, history) == CountTokens(BuildMessages(history, CurrentSentence(s)))

\* C23: the trimming loop removes turns from the oldest end only, so the
\* history after it is a suffix of the history before it; it removed a
\* turn only while the cost was over max_tokens and more than one turn was
\* left, and it stopped as soon as that was no longer so; a non-empty
\* history stays non-empty and there are at most len(history) - 1 removals.
C23_TrimmingKeepsSuffix ==
    [][\A s \in Sessions :
          Trims(s) =>
              LET before == BeforeTrim(s)
                  after  == heap'[histRef[s]]
                  d      == Len(before) - Len(after)
              IN  /\ d >= 0
                  /\ after = DropOldest(before, d)
                  /\ before # <<>> => after # <<>> /\ d <= Len(before) - 1
                  /\ CostWith(s, after) <= max_tokens \/ Len(after) <= 1
                  /\ \A j \in 0..(d - 1) :
                         /\ CostWith(s, DropOldest(before, j)) > max_tokens
                         /\ Len(before) - j > 1
      ]_vars

\* the third attempt of a first unit: two of the six turns the failures
\* appended were removed and the rest fits the budget exactly
C23_Witness ==
    /\ Attempting(1)
    /\ local_idx[1] = 0 /\ attempt[1] = 3 /\ Len(calls[1]) = 2
    /\ pipeline = "srt"
    /\ heap[histRef[1]] =
           <<AckTurn, Msg("assistant", MalformedText("JSONDecodeError", CurrentSentence(1))),
             CorrectiveTurn, AckTurn>>
    /\ AttemptCost(1) <= max_tokens
    /\ CostWith(1, <<CorrectiveTurn>> \o heap[histRef[1]]) > max_tokens

\* the message list of the call session s is waiting for
Sent(s) == Head(inflight[s]).messages

\* C24: every message list sent to the endpoint is the system prompt, then
\* the trimmed history of the session in order, then the user query of the
\* unit; a call to the next model within the same attempt is sent the very
\* list the call before it was sent.
C24_MessageListLayout ==
    [][\A s \in Sessions :
          Attempting(s)' =>
              /\ Len(Sent(s)') = Len(heap'[histRef[s]]) + 2
              /\ Sent(s)'[1] = Msg("system", SystemPrompt)
              /\ \A i \in 1..Len(heap'[histRef[s]]) :
                     Sent(s)'[i + 1] = heap'[histRef[s]][i]
              /\ Sent(s)'[Len(Sent(s)')] = Msg("user", TranslateQuery(CurrentSentence(s)'))
              /\ (Attempting(s) /\ attempt'[s] = attempt[s]) => Sent(s)' = Sent(s)
      ]_vars

\* the second model of an attempt is being called with a history between
\* system prompt and query
C24_Witness ==
    /\ Attempting(1)
    /\ model_idx[1] = 2 /\ Head(inflight[1]).model = "m2"
    /\ attempt[1] = 2
    /\ heap[histRef[1]] # <<>>
    /\ Sent(1) = <<Msg("system", SystemPrompt)>> \o heap[histRef[1]]
                     \o <<Msg("user", TranslateQuery(CurrentSentence(1)))>>

\* C25: when every remote call is answered, no translate_sentence makes
\* more than 5 * len(model_names) remote calls, every session worker
\* returns, and the batch reaches the merge and emits one output entry per
\* unit, whatever the session count and whichever calls fail.
C25_BatchTerminates ==
    /\ [](phase \in {"running", "done"} =>
             \A s \in Sessions :
                 Len(Issued(s)) <= 5 * Len(model_names))
    /\ <>(/\ phase = "done"
          /\ \A s \in Sessions : pc[s] = "done"
          /\ Len(output) = Total)

\* two sessions are done, one after ten failed calls for its unit, and the
\* output has an entry for each unit
C25_Witness ==
    /\ phase = "done"
    /\ sessions = 2 /\ Total = 2
    /\ model_names = <<"m1", "m2">>
    /\ Len(calls[1]) = 10 /\ Len(calls[2]) = 10
    /\ finished = <<2, 1>>
    /\ Len(output) = 2

\* the error kinds the claim counts as retryable after a failed remote call
RetryableCallKinds == {"ValueError"} \cup Timeouts

\* C26: when all candidate models failed in an attempt, the error of the
\* last model decides alone: the attempt is followed by the next attempt
\* (up to 5) iff that error is a value error or a timeout, whatever the
\* errors of the earlier models were; otherwise the unit ends there with
\* that error.
C26_LastErrorDecidesRetry ==
    phase \in {"running", "done"} =>
        \A s \in Sessions : \A i \in 1..Len(calls[s]) :
            LET c == calls[s][i]
            IN  ( /\ Len(model_names) > 1
                  /\ c.model = model_names[Len(model_names)]
                  /\ RaisedBy(c.outcome) \in CallErrors )
                => IF RaisedBy(c.outcome) \in RetryableCallKinds /\ c.attempt < 5
                   THEN /\ i < Len(Issued(s))
                        /\ Issued(s)[i + 1].attempt = c.attempt + 1
                   ELSE /\ i = Len(Issued(s))
                        /\ UnitSettled(s)
                        /\ LastEntry(s).err = RaisedBy(c.outcome)

\* the turns the step of session s appends to its history
Appended(s) ==
    IF ~Answered(s) THEN <<>>
    ELSE IF AnsweredError(s) = "none"
         THEN <<Msg("assistant",
                    AcceptedText(AnsweredCall(s).outcome,
                                 ResultOf(CurrentSentence(s), AnsweredCall(s).model)))>>
    ELSE IF AnsweredError(s) \in ParseErrors
         THEN <<Msg("assistant", MalformedText(AnsweredCall(s).outcome, CurrentSentence(s))),
                CorrectiveTurn, AckTurn>>
    ELSE <<>>

\* C27: apart from trimming, the history of a session changes only by what
\* the answer to a call appends: one assistant turn for a validated response,
\* three turns for a parse or validation failure, nothing for any other
\* failure or for an empty model list.  The new history is those turns
\* after the old one, less the oldest turns a trimming loop of the same step
\* removed; a step without trimming removes nothing, so what was removed
\* or appended stays so for the later attempts and units of the session.
C27_HistoryFrame ==
    [][phase = "running" =>
          \A s \in Sessions :
              LET old   == heap[histRef[s]]
                  new   == heap'[histRef[s]]
                  grown == old \o Appended(s)
                  d     == Len(grown) - Len(new)
              IN  /\ d >= 0
                  /\ new = DropOldest(grown, d)
                  /\ ~Trims(s) => d = 0
                  /\ (Answered(s) /\ AnsweredError(s) \in CallErrors) => new = old
      ]_vars

\* the second unit is sent after a first unit that failed to parse once
\* and was then accepted: three turns and one assistant turn are kept
C27_Witness ==
    /\ Attempting(1)
    /\ local_idx[1] = 1
    /\ max_tokens = DefaultMaxTokens
    /\ Len(heap[histRef[1]]) = 4
    /\ heap[histRef[1]][2] = CorrectiveTurn
    /\ heap[histRef[1]][3] = AckTurn
    /\ heap[histRef[1]][4].role = "assistant"
    /\ heap[histRef[1]][4].content = JsonDumps(ResultOf(SentenceOf(pipeline, units[1]), "m1"))

\* C28: trimming never makes a translation fail or be skipped: whatever the
\* cost after the trimming loop, the attempt goes on to call the first
\* candidate model with the list it built and stores nothing for the unit
\* yet; an error the worker stores is the error of the call answered in
\* that step, or the configuration error of an empty model list, never an
\* error about the size of the list.
C28_OversizedListIsSent ==
    [][\A s \in Sessions :
          /\ (Trims(s) /\ model_names # <<>>) =>
                 /\ Attempting(s)'
                 /\ Head(inflight'[s]).model = model_names[1]
                 /\ Sent(s)' = <<Msg("system", SystemPrompt)>> \o heap'[histRef[s]]
                                  \o <<Msg("user", TranslateQuery(CurrentSentence(s)))>>
                 /\ session_results'[s] = session_results[s]
          /\ (phase = "running" /\ Len(session_results'[s]) > Len(session_results[s])) =>
                 LET e == session_results'[s][Len(session_results'[s])].err
                 IN  IF model_names = <<>> THEN e = "RuntimeError"
                     ELSE Answered(s) /\ e = AnsweredError(s)
      ]_vars

\* a query that alone is over the budget was sent with an empty history and
\* the unit was translated
C28_Witness ==
    /\ UnitSettled(1)
    /\ local_idx[1] = 1 /\ Len(calls[1]) = 1
    /\ heap[histRef[1]] # <<>>
    /\ CountTokens(BuildMessages(<<>>, SentenceOf(pipeline, units[1]))) > max_tokens
    /\ LastEntry(1).err = "none"

(***************************************************************************)
(* set_timeout                                                             *)
(***************************************************************************)
\* the wrapper has ended and func ended before the deadline
EndedInTime == wpc = "done" /\ done_at >= 0 /\ done_at < wrapped.limit

\* C21: when a synchronous function wrapped by set_timeout is still running
\* at the deadline, the caller gets a TimeoutError and the worker thread is
\* left running: it is not killed, and ends in its own time.
C21_SyncExpiryRaisesTimeout ==
    (wrapped.mode = "sync" /\ wpc = "done" /\ alive = "yes")
        => /\ caller.kind = "raised"
           /\ caller.class = "TimeoutError"
           /\ worker \in {"running", "finished"}

\* C29: when a function wrapped by set_timeout ends before the deadline,
\* synchronous or asynchronous, the caller gets exactly what func did: its
\* result, or the very error it raised, a TimeoutError of its own included,
\* which is not turned into the wrapper's report of an expired deadline.
C29_TransparentBeforeDeadline ==
    EndedInTime => caller = wrapped.outcome

====
